---- MODULE Spec2Model ----
(***************************************************************************)
(* State-machine model of src/js/app.js (PRODGIO site script).             *)
(*                                                                         *)
(* Every UI module of the script owns private state, so each module is     *)
(* checked under a specification of its own in which the other modules     *)
(* rest in their "not on this page" state (their root element is absent,   *)
(* so their constructor never calls init and no listener is bound).        *)
(*                                                                         *)
(* Strings are sequences of one-character strings, so that trim, length,   *)
(* split, the validation regular expressions and encodeURIComponent are    *)
(* computed character by character, as the script computes them.           *)
(***************************************************************************)
EXTENDS Integers, Sequences, FiniteSets, TLC

VARIABLES
  \* ---- Testimonials (src/js/app.js:666-798)
  numCards,          \* this.cards.length
  numIndicators,     \* this.indicators.length
  isTouchDevice,     \* Device.isTouchDevice() at bindEvents time
  currentIndex,      \* this.currentIndex
  activeCards,       \* indices of cards carrying 'active'
  activeIndicators,  \* indices of indicators carrying 'active'
  autoplayInterval,  \* this.autoplayInterval: a handle; 0 is null
  intervals,         \* the armed setInterval timers: handle and delay
  touchStart,        \* <<startX, startY>> of the touch listeners' closure
  pointerEvent,      \* history: the latest of mouseenter / mouseleave
  hist,              \* history: the latest next/prev calls, <<op, index before>>
  \* ---- Portfolio (src/js/app.js:515-660)
  items,             \* data-category attribute of every .portfolio-item
  hiddenItems,       \* indices of items carrying 'hidden'
  currentFilter,     \* this.currentFilter
  currentPage,       \* this.currentPage
  activeFilterBtn,   \* filter buttons carrying 'active'
  loadMoreDisplay,   \* style.display of the load-more button
  timers,            \* pending setTimeout callbacks of filterItems / loadMore
  loadsSinceClick,   \* history: loadMore calls since the last filter-button click
  loadsSinceChange,  \* history: loadMore calls since currentFilter last changed
  filterCounts,      \* textContent of the .filter-count of every filter button
  \* ---- HeroEffects (src/js/app.js:333-509)
  canvas,            \* [width, height] of the canvas
  particleArray,     \* this.particleArray
  isVisible,         \* this.isVisible
  resized,           \* history: resizeCanvas ran after createParticles
  updates,           \* history: number of updateParticles runs (capped)
  counter,           \* one counter element and its animateCounter closure
  animationId,       \* this.animationId; 0 is null
  pendingFrames,     \* handles of the particle loop's requested frames
  destroyed,         \* history: destroy() has been called
  \* ---- ContactForm (src/js/app.js:804-985)
  inputs,            \* this.inputs: value, rule list, classes, error text
  isSubmitting,      \* this.isSubmitting
  submitDisabled,    \* this.submitBtn.disabled
  pendingCalls,      \* submitToAPI promises not yet settled
  formMessages,      \* the attached .form-message elements, document order
  msgTimers,         \* pending dismissal timers, oldest first
  formEvent,         \* history: what the latest handler run did
  \* ---- WhatsAppForm (src/js/app.js:991-1055)
  waEntries,         \* FormData entries of the form, in field order
  waOpened,          \* the URL handed to window.open, or NoURL
  \* ---- Storage (src/js/app.js:126-156)
  localStorage,      \* the item stored under every key, or NoItem
  everStored,        \* history: keys that held an item at some time
  storageCall,       \* history: the latest Storage call and its outcome
  \* ---- App (src/js/app.js:1061-1171)
  throwing,          \* the module constructors that throw on this page
  appPhase,          \* where App.start stands
  modules,           \* keys of this.modules, in the order they were assigned
  constructorCalls,  \* history: the constructors called, in call order
  isLoaded,          \* this.isLoaded
  startEscaped,      \* an exception left App.start
  loadingScreen,     \* the #loading-screen element
  globalEvents,      \* setupGlobalEvents has bound its listeners
  \* ---- Navigation (src/js/app.js:162-328)
  navSections,       \* the section[id] elements: id, offsetTop, offsetHeight
  navLinks,          \* href of every .nav-link
  scrollY,           \* window.scrollY
  innerHeight,       \* window.innerHeight
  activeLinks,       \* indices of the links carrying 'active'
  navEvent,          \* history: what ran last
  isMenuOpen,        \* this.isMenuOpen
  menuDom,           \* classes and aria attributes of menu, toggle and body
  innerWidth,        \* window.innerWidth
  resizeTimer,       \* the debounce closure's pending timer, or NoTimer
  clicked,           \* history: the target of the latest click
  headerScrolled,    \* the header carries 'scrolled'
  lastExecAge,       \* Date.now() - lastExecTime of the throttle closure
  throttleTimer,     \* ms until the throttle closure's timer is due, or NoTimer
  throttleEvent      \* history: what the throttle closure did last

testVars == <<numCards, numIndicators, isTouchDevice, currentIndex, activeCards,
              activeIndicators, autoplayInterval, intervals, touchStart,
              pointerEvent, hist>>
portVars == <<items, hiddenItems, currentFilter, currentPage, activeFilterBtn,
              loadMoreDisplay, timers, loadsSinceClick, loadsSinceChange,
              filterCounts>>
animVars == <<animationId, pendingFrames, destroyed>>
heroVars == <<canvas, particleArray, isVisible, resized, updates, counter, animVars>>
formVars == <<inputs, isSubmitting, submitDisabled, pendingCalls, formMessages,
              msgTimers, formEvent>>
waVars == <<waEntries, waOpened>>
storVars == <<localStorage, everStored, storageCall>>
appVars == <<throwing, appPhase, modules, constructorCalls, isLoaded, startEscaped,
             loadingScreen, globalEvents>>
menuVars == <<isMenuOpen, menuDom, innerWidth, resizeTimer, clicked>>
throttleVars == <<headerScrolled, lastExecAge, throttleTimer, throttleEvent>>
navVars == <<navSections, navLinks, scrollY, innerHeight, activeLinks, navEvent,
             menuVars, throttleVars>>
vars == <<testVars, portVars, heroVars, formVars, waVars, storVars, appVars,
          navVars>>

Min(a, b) == IF a < b THEN a ELSE b

Abs(a) == IF a < 0 THEN -a ELSE a

(***************************************************************************)
(* Modules whose root element is absent: the constructor sets the fields   *)
(* and returns without init.                                               *)
(***************************************************************************)
NoTestimonials ==
  /\ numCards = 0
  /\ numIndicators = 0
  /\ isTouchDevice = FALSE
  /\ currentIndex = 0
  /\ activeCards = {}
  /\ activeIndicators = {}
  /\ autoplayInterval = 0
  /\ intervals = {}
  /\ touchStart = <<0, 0>>
  /\ pointerEvent = "none"
  /\ hist = <<>>

(***************************************************************************)
(*                              TESTIMONIALS                               *)
(***************************************************************************)
MaxCards == 4

MaxIndicators == 5

\* The script never bounds currentIndex from above; the model stops next()
\* from counting past this value.
IndexCap == MaxIndicators + 2

swipeThreshold == 50

autoplayDelay == 5000

TouchCoords == {0, 40, 100}

\* updateCarousel: the card and the indicator at currentIndex get 'active'.
updateCarousel(idx) ==
  /\ activeCards' = {i \in 0..(numCards - 1) : i = idx}
  /\ activeIndicators' = {i \in 0..(numIndicators - 1) : i = idx}

PrevIndex(idx, n) == IF idx = 0 THEN n - 1 ELSE idx - 1

NextIndexNoWrap(idx, n) == idx + 1

NextIndex(idx, n) == IF idx = n - 1 THEN 0 ELSE idx + 1

HistWindow == IF numCards < 2 THEN 2 ELSE numCards

Remember(op) ==
  LET h == Append(hist, <<op, currentIndex>>)
  IN  hist' = IF Len(h) > HistWindow THEN Tail(h) ELSE h

prev ==
  /\ currentIndex' = PrevIndex(currentIndex, numCards)
  /\ updateCarousel(currentIndex')
  /\ Remember("prev")

next ==
  /\ currentIndex < IndexCap
  /\ currentIndex' = NextIndex(currentIndex, numCards)
  /\ updateCarousel(currentIndex')
  /\ Remember("next")

goTo(index) ==
  /\ currentIndex' = index
  /\ updateCarousel(index)
  /\ hist' = <<>>

TestimonialsInit ==
  /\ numCards \in 1..MaxCards
  /\ numIndicators \in 0..MaxIndicators
  /\ isTouchDevice \in BOOLEAN
  /\ currentIndex = 0
  /\ activeCards = {0}
  /\ activeIndicators = {i \in 0..(numIndicators - 1) : i = 0}
  /\ autoplayInterval = 1
  /\ intervals = {[id |-> 1, delay |-> autoplayDelay]}
  /\ touchStart = <<0, 0>>
  /\ pointerEvent = "none"
  /\ hist = <<>>

ClickPrev ==
  /\ prev
  /\ UNCHANGED <<numCards, numIndicators, isTouchDevice, autoplayInterval,
                 intervals, touchStart, pointerEvent>>

ClickNext ==
  /\ next
  /\ UNCHANGED <<numCards, numIndicators, isTouchDevice, autoplayInterval,
                 intervals, touchStart, pointerEvent>>

ClickIndicator ==
  \E index \in 0..(numIndicators - 1) :
    /\ goTo(index)
    /\ UNCHANGED <<numCards, numIndicators, isTouchDevice, autoplayInterval,
                   intervals, touchStart, pointerEvent>>

TouchStart ==
  /\ isTouchDevice
  /\ \E x \in TouchCoords, y \in TouchCoords : touchStart' = <<x, y>>
  /\ UNCHANGED <<numCards, numIndicators, isTouchDevice, currentIndex,
                 activeCards, activeIndicators, autoplayInterval, intervals,
                 pointerEvent, hist>>

TouchEnd ==
  /\ isTouchDevice
  /\ \E endX \in TouchCoords, endY \in TouchCoords :
       LET deltaX == endX - touchStart[1]
           deltaY == endY - touchStart[2]
       IN  IF Abs(deltaX) > Abs(deltaY) /\ Abs(deltaX) > swipeThreshold
             THEN IF deltaX > 0 THEN prev ELSE next
             ELSE UNCHANGED <<currentIndex, activeCards, activeIndicators, hist>>
  /\ UNCHANGED <<numCards, numIndicators, isTouchDevice, autoplayInterval,
                 intervals, touchStart, pointerEvent>>

\* The setInterval callback of startAutoplay, fired by an armed interval
\* each time its delay has passed.
AutoplayTick ==
  /\ intervals # {}
  /\ next
  /\ UNCHANGED <<numCards, numIndicators, isTouchDevice, autoplayInterval,
                 intervals, touchStart, pointerEvent>>

StopsNothing == intervals

\* stopAutoplay: the armed intervals after clearInterval(this.autoplayInterval).
stopAutoplay ==
  IF autoplayInterval # 0
    THEN {t \in intervals : t.id # autoplayInterval}
    ELSE intervals

\* The handle setInterval returns: one that no armed interval has.
NewHandle(armed) ==
  CHOOSE h \in 1..(Cardinality(armed) + 1) : \A t \in armed : t.id # h

\* startAutoplay: stopAutoplay, then a new interval of autoplayDelay.
startAutoplay ==
  /\ autoplayInterval' = NewHandle(stopAutoplay)
  /\ intervals' = stopAutoplay \cup
       {[id |-> NewHandle(stopAutoplay), delay |-> autoplayDelay]}

\* mouseenter: stopAutoplay.
MouseEnter ==
  /\ intervals' = stopAutoplay
  /\ autoplayInterval' = 0
  /\ pointerEvent' = "mouseenter"
  /\ UNCHANGED <<numCards, numIndicators, isTouchDevice, currentIndex,
                 activeCards, activeIndicators, touchStart, hist>>

\* mouseleave: startAutoplay.
MouseLeave ==
  /\ startAutoplay
  /\ pointerEvent' = "mouseleave"
  /\ UNCHANGED <<numCards, numIndicators, isTouchDevice, currentIndex,
                 activeCards, activeIndicators, touchStart, hist>>

(***************************************************************************)
(*                                PORTFOLIO                                *)
(***************************************************************************)
MaxItems == 8

itemsPerPage == 6

\* Clicks wait while more than this many timers are pending.
MaxPendingTimers == 2

filterDelay == 300

revealStagger == 100

All == <<"a", "l", "l">>

\* An item without a data-category attribute.
NoCategory == <<"?">>

\* data-filter of the filter buttons.
FilterValues == {All, <<"w">>, <<"d">>}

\* Category attributes, repeated along the grid.
Patterns ==
  { <<<<"w">>>>,
    <<<<"w">>, <<"w", ",", "d">>>>,
    <<<<"d">>, <<"w">>, NoCategory, <<"d", ",", "w">>, <<"w">>>>,
    <<<<"w", "d">>, <<"d">>, <<>>>> }

Layouts ==
  { [i \in 1..n |-> p[((i - 1) % Len(p)) + 1]] :
      n \in {0, itemsPerPage, MaxItems}, p \in Patterns }

\* String.prototype.split(',').
RECURSIVE SplitFrom(_, _, _)
SplitFrom(s, i, cur) ==
  IF i > Len(s) THEN <<cur>>
  ELSE IF s[i] = "," THEN <<cur>> \o SplitFrom(s, i + 1, <<>>)
  ELSE SplitFrom(s, i + 1, Append(cur, s[i]))

\* item.dataset.category?.split(',') || []
Categories(attr) == IF attr = NoCategory THEN <<>> ELSE SplitFrom(attr, 1, <<>>)

Includes(list, x) == \E j \in 1..Len(list) : list[j] = x

RECURSIVE FilterFrom(_, _)
FilterFrom(i, filter) ==
  IF i > Len(items) THEN <<>>
  ELSE (IF Includes(Categories(items[i]), filter) THEN <<i>> ELSE <<>>)
         \o FilterFrom(i + 1, filter)

\* getFilteredItems with this.currentFilter = filter: item indices, DOM order.
getFilteredItems(filter) ==
  IF filter = All THEN [i \in 1..Len(items) |-> i] ELSE FilterFrom(1, filter)

\* Array.prototype.slice(from, to) for 0 <= from.
Slice(seq, from, to) == SubSeq(seq, from + 1, Min(to, Len(seq)))

\* One staggered timer per item of the list: index * 100 ms.
RevealTimers(list) ==
  { [kind |-> "reveal", due |-> (index - 1) * revealStagger, item |-> list[index],
     shown |-> <<>>] : index \in 1..Len(list) }

updateLoadMoreButtonStrict(filter, page) ==
  loadMoreDisplay' =
    IF loadMoreDisplay = "absent" THEN "absent"
    ELSE IF page * itemsPerPage > Len(getFilteredItems(filter)) THEN "none"
    ELSE "block"

\* updateLoadMoreButton.
updateLoadMoreButton(filter, page) ==
  loadMoreDisplay' =
    IF loadMoreDisplay = "absent" THEN "absent"
    ELSE IF page * itemsPerPage >= Len(getFilteredItems(filter)) THEN "none"
    ELSE "block"

\* filterItems, first half: every item gets 'hidden'.
FilterItemsHidden == 1..Len(items)

\* filterItems, second half: the 300 ms timer, closing over filteredItems.
FilterTimer(filter) ==
  [kind |-> "filter", due |-> filterDelay, item |-> 0,
   shown |-> getFilteredItems(filter)]

LoadMoreSliceFromZero(filtered, page) ==
  Slice(filtered, 0, (page - 1) * itemsPerPage)

\* loadMore: the slice of the page just entered.
LoadMoreSlice(filtered, page) ==
  Slice(filtered, (page - 1) * itemsPerPage, page * itemsPerPage)

\* updateFilterCounts while this.currentFilter is current: the text written
\* into the .filter-count element of every filter button.
updateFilterCounts(current) ==
  [filterValue \in FilterValues |->
     IF filterValue = All THEN Len(items)
     ELSE Len(getFilteredItems(current))]

PortfolioInit ==
  /\ items \in Layouts
  /\ currentFilter = All
  /\ filterCounts = updateFilterCounts(currentFilter)
  /\ currentPage = 1
  /\ activeFilterBtn \in {{}, {All}}
  /\ hiddenItems = 1..Len(items)
  /\ timers = {FilterTimer(All)}
  /\ \E present \in BOOLEAN :
       loadMoreDisplay =
         IF ~present THEN "absent"
         ELSE IF itemsPerPage >= Len(items) THEN "none" ELSE "block"
  /\ loadsSinceClick = 0
  /\ loadsSinceChange = 0

NoPortfolio ==
  /\ items = <<>>
  /\ filterCounts = [filterValue \in FilterValues |-> 0]
  /\ currentFilter = All
  /\ currentPage = 1
  /\ activeFilterBtn = {}
  /\ hiddenItems = {}
  /\ timers = {}
  /\ loadMoreDisplay = "absent"
  /\ loadsSinceClick = 0
  /\ loadsSinceChange = 0

\* handleFilterClick(filterBtn).
handleFilterClick(filter) ==
  IF filter = currentFilter
    THEN /\ loadsSinceClick' = 0
         /\ UNCHANGED <<items, filterCounts, hiddenItems, currentFilter, currentPage,
                        activeFilterBtn, loadMoreDisplay, timers, loadsSinceChange>>
    ELSE /\ activeFilterBtn' = {filter}
         /\ currentFilter' = filter
         /\ currentPage' = 1
         /\ hiddenItems' = FilterItemsHidden
         /\ timers' = timers \cup {FilterTimer(filter)}
         /\ updateLoadMoreButton(filter, 1)
         /\ loadsSinceClick' = 0
         /\ loadsSinceChange' = 0
         /\ UNCHANGED <<items, filterCounts>>

\* loadMore, reached by a click on the displayed load-more button.
loadMore ==
  /\ Cardinality(timers) <= MaxPendingTimers
  /\ loadMoreDisplay = "block"
  /\ currentPage' = currentPage + 1
  /\ timers' = timers \cup
       RevealTimers(LoadMoreSlice(getFilteredItems(currentFilter), currentPage + 1))
  /\ updateLoadMoreButton(currentFilter, currentPage + 1)
  /\ loadsSinceClick' = loadsSinceClick + 1
  /\ loadsSinceChange' = loadsSinceChange + 1
  /\ UNCHANGED <<items, filterCounts, hiddenItems, currentFilter, activeFilterBtn>>

\* The 300 ms callback of filterItems: currentPage is read when it runs.
FireFilterTimer ==
  \E t \in timers :
    /\ t.kind = "filter"
    /\ t.due = 0
    /\ timers' = (timers \ {t}) \cup
         RevealTimers(Slice(t.shown, 0, itemsPerPage * currentPage))
    /\ UNCHANGED <<items, filterCounts, hiddenItems, currentFilter, currentPage, activeFilterBtn,
                   loadMoreDisplay, loadsSinceClick, loadsSinceChange>>

\* A per-item callback: the item loses 'hidden'.
FireRevealTimer ==
  \E t \in timers :
    /\ t.kind = "reveal"
    /\ t.due = 0
    /\ timers' = timers \ {t}
    /\ hiddenItems' = hiddenItems \ {t.item}
    /\ UNCHANGED <<items, filterCounts, currentFilter, currentPage, activeFilterBtn,
                   loadMoreDisplay, loadsSinceClick, loadsSinceChange>>

\* Time passes until the next timer is due.
AdvanceTime ==
  /\ timers # {}
  /\ \A t \in timers : t.due > 0
  /\ LET step == CHOOSE d \in {t.due : t \in timers} :
                   \A t \in timers : d <= t.due
     IN  timers' = {[t EXCEPT !.due = t.due - step] : t \in timers}
  /\ UNCHANGED <<items, filterCounts, hiddenItems, currentFilter, currentPage, activeFilterBtn,
                 loadMoreDisplay, loadsSinceClick, loadsSinceChange>>

ClickFilter ==
  /\ Cardinality(timers) <= MaxPendingTimers
  /\ \E filter \in FilterValues : handleFilterClick(filter)

(***************************************************************************)
(*                        HERO EFFECTS: PARTICLES                          *)
(*                                                                         *)
(* Positions and speeds are whole numbers of one grid unit (an eighth of a *)
(* pixel: the speeds of createParticles lie in [-0.25, 0.25)).  Particles  *)
(* never interact, so the array holds one particle; size and opacity are   *)
(* never written after creation and are left out.                          *)
(***************************************************************************)
MaxCanvas == 4

MaxSpeed == 2

MaxUpdates == 3

CanvasSizes == (MaxCanvas - 1)..MaxCanvas

\* createParticles: Math.random() * width lies in [0, width).
NewParticles(w, h) ==
  { <<[x |-> px, y |-> py, speedX |-> sx, speedY |-> sy]>> :
      px \in 0..(w - 1), py \in 0..(h - 1),
      sx \in (-MaxSpeed)..MaxSpeed, sy \in (-MaxSpeed)..MaxSpeed }

\* updateParticles, one particle: move, then flip the speed when outside.
updateParticle(p) ==
  LET nx == p.x + p.speedX
      ny == p.y + p.speedY
  IN  [x |-> nx,
       y |-> ny,
       speedX |-> IF nx < 0 \/ nx > canvas.width THEN -p.speedX ELSE p.speedX,
       speedY |-> IF ny < 0 \/ ny > canvas.height THEN -p.speedY ELSE p.speedY]

updateParticles == [i \in 1..Len(particleArray) |-> updateParticle(particleArray[i])]

NoCounter ==
  [target |-> <<>>, counted |-> FALSE, startTime |-> 0, scheduled |-> FALSE,
   written |-> FALSE, text |-> 0, prevWritten |-> FALSE, prevText |-> 0,
   lastFrame |-> 0, starts |-> 0, seen |-> 0]

ParticlesInit ==
  /\ canvas \in [width : CanvasSizes, height : CanvasSizes]
  /\ particleArray \in NewParticles(canvas.width, canvas.height)
  /\ isVisible = FALSE
  /\ resized = FALSE
  /\ updates = 0
  /\ counter = NoCounter
  /\ animationId = 1
  /\ pendingFrames = {1}
  /\ destroyed = FALSE

NoHero ==
  /\ canvas = [width |-> 0, height |-> 0]
  /\ particleArray = <<>>
  /\ isVisible = FALSE
  /\ resized = FALSE
  /\ updates = 0
  /\ counter = NoCounter
  /\ animationId = 0
  /\ pendingFrames = {}
  /\ destroyed = FALSE

\* Frames the particle loop requests before the model stops it.
MaxFrames == 4

\* The requestAnimationFrame callback of startAnimation: handle h is due;
\* the frame requested at its end gets the next handle.
AnimateParticles ==
  /\ updates < MaxUpdates
  /\ animationId < MaxFrames
  /\ \E h \in pendingFrames :
       /\ animationId' = animationId + 1
       /\ pendingFrames' = (pendingFrames \ {h}) \cup {animationId + 1}
  /\ IF isVisible
       THEN /\ particleArray' = updateParticles
            /\ updates' = updates + 1
       ELSE UNCHANGED <<particleArray, updates>>
  /\ UNCHANGED <<canvas, isVisible, resized, counter, destroyed>>

CancelNothing(id) == pendingFrames

\* cancelAnimationFrame(id): the frame with that handle will not run.
cancelAnimationFrame(id) == pendingFrames \ {id}

\* destroy().
destroy ==
  /\ pendingFrames' = IF animationId # 0 THEN cancelAnimationFrame(animationId)
                       ELSE pendingFrames
  /\ destroyed' = TRUE
  /\ UNCHANGED <<canvas, particleArray, isVisible, resized, updates, counter,
                 animationId>>

\* The IntersectionObserver callback of bindEvents.
HeroIntersection ==
  /\ \E isIntersecting \in BOOLEAN : isVisible' = isIntersecting
  /\ UNCHANGED <<canvas, particleArray, resized, updates, counter, animVars>>

\* The debounced resize listener: resizeCanvas.
ResizeCanvas ==
  /\ \E w \in CanvasSizes, h \in CanvasSizes :
       canvas' = [width |-> w, height |-> h]
  /\ resized' = TRUE
  /\ UNCHANGED <<particleArray, isVisible, updates, counter, animVars>>

(***************************************************************************)
(*                         HERO EFFECTS: COUNTERS                          *)
(*                                                                         *)
(* Timestamps are milliseconds, in steps of 250 ms.  With the duration of  *)
(* 2000 ms the progress is a multiple of 1/8, for which the double         *)
(* arithmetic of the script is exact, so the fractions below compute what  *)
(* the script computes.  The suffix appended to the text is left out.      *)
(***************************************************************************)
MaxTick == 12

duration == 2000

Timestamps == {250 * k : k \in 0..MaxTick}

\* data-target of the counter elements.
CounterTargets == { <<"0">>, <<"1">>, <<"7">>, <<"4", "2">>, <<"1", "0", "0">> }

Digits == <<"0", "1", "2", "3", "4", "5", "6", "7", "8", "9">>

IsDigit(c) == \E d \in 1..10 : Digits[d] = c

DigitValue(c) == (CHOOSE d \in 1..10 : Digits[d] = c) - 1

\* parseInt on a string of decimal digits.
RECURSIVE parseInt(_)
parseInt(s) ==
  IF Len(s) = 0 THEN 0
  ELSE 10 * parseInt(SubSeq(s, 1, Len(s) - 1)) + DigitValue(s[Len(s)])

RECURSIVE GCD(_, _)
GCD(a, b) == IF b = 0 THEN a ELSE GCD(b, a % b)

Pow4(a) == a * a * a * a

ProgressUncapped(elapsed) == elapsed

\* Math.min(elapsed / duration, 1), as the numerator over `duration`.
Progress(elapsed) == Min(elapsed, duration)

\* Math.floor((1 - Math.pow(1 - progress, 4)) * target), progress = num / duration.
Eased(num, target) ==
  LET g == GCD(Abs(num), duration)
      n == num \div g
      d == duration \div g
  IN  (target * (Pow4(d) - Pow4(d - n))) \div Pow4(d)

CounterInit ==
  /\ canvas = [width |-> 0, height |-> 0]
  /\ particleArray = <<>>
  /\ isVisible = FALSE
  /\ resized = FALSE
  /\ updates = 0
  /\ \E t \in CounterTargets : counter = [NoCounter EXCEPT !.target = t]
  /\ animationId = 0
  /\ pendingFrames = {}
  /\ destroyed = FALSE

\* Entries of one observer notification about the element.
MaxBatch == 2

CountedNever(c) == FALSE

\* entry.target.classList.contains('counted')
HasCounted(c) == c.counted

\* One entry of the observer callback of setupCounters.  History: `starts`
\* counts the animateCounter calls and `seen` the intersecting entries, both
\* up to two.
CounterEntry(c, isIntersecting, now) ==
  LET d == [c EXCEPT !.seen = IF isIntersecting THEN Min(@ + 1, 2) ELSE @]
  IN  IF isIntersecting /\ ~HasCounted(d)
        THEN [d EXCEPT !.counted = TRUE, !.startTime = now, !.scheduled = TRUE,
                       !.starts = Min(@ + 1, 2)]
        ELSE d

\* entries.forEach of the observer callback.
RECURSIVE CounterEntries(_, _, _)
CounterEntries(c, entries, now) ==
  IF entries = <<>> THEN c
  ELSE CounterEntries(CounterEntry(c, Head(entries), now), Tail(entries), now)

\* The IntersectionObserver callback of setupCounters: a batch of entries.
CounterIntersection ==
  /\ \E n \in 1..MaxBatch, now \in {t \in Timestamps : t <= 500} :
       \E entries \in [1..n -> BOOLEAN] :
         counter' = CounterEntries(counter, entries, now)
  /\ UNCHANGED <<canvas, particleArray, isVisible, resized, updates, animVars>>

\* The animate callback of animateCounter, called with timestamp currentTime.
CounterFrame ==
  /\ counter.scheduled
  /\ \E currentTime \in Timestamps :
       /\ currentTime >= counter.lastFrame
       /\ LET elapsed == currentTime - counter.startTime
              num == Progress(elapsed)
          IN  counter' = [counter EXCEPT
                !.prevWritten = counter.written,
                !.prevText = counter.text,
                !.written = TRUE,
                !.text = Eased(num, parseInt(counter.target)),
                !.scheduled = (num < duration),
                !.lastFrame = currentTime]
  /\ UNCHANGED <<canvas, particleArray, isVisible, resized, updates, animVars>>

(***************************************************************************)
(*                              CONTACT FORM                               *)
(*                                                                         *)
(* A rule of data-validate is modelled after rule.split(':'): the          *)
(* validator name and the parameter, a string of digits (empty when the    *)
(* rule has none).                                                         *)
(***************************************************************************)
MaxLen == 5

MaxMsgTimers == 2

\* What the user can type.
Keys == {"a", " ", "@", ".", "1"}

IsSpace(c) == c = " "

Rule(v, param) == [validator |-> v, param |-> param]

Required == Rule("required", <<>>)

Email == Rule("email", <<>>)

Phone == Rule("phone", <<>>)

MinLength(param) == Rule("minLength", param)

\* data-validate of the fields the model draws from.
RuleLists ==
  { <<>>,
    <<Required>>,
    <<Required, MinLength(<<"3">>)>>,
    <<Required, MinLength(<<"2">>)>>,
    <<MinLength(<<"3">>), Required>>,
    <<MinLength(<<"2">>)>>,
    <<Email>>,
    <<Required, Email>>,
    <<Phone, MinLength(<<"3">>)>>,
    <<Email, Phone>> }

\* validators.required: value.trim() !== ''
RequiredOk(value) == \E i \in 1..Len(value) : ~IsSpace(value[i])

\* validators.email: /^[^\s@]+@[^\s@]+\.[^\s@]+$/
EmailOk(value) ==
  \E at \in 2..Len(value) :
    /\ value[at] = "@"
    /\ \A i \in 1..Len(value) : ~IsSpace(value[i]) /\ (value[i] = "@" => i = at)
    /\ \E dot \in (at + 2)..(Len(value) - 1) : value[dot] = "."

\* value.replace(/\s/g, '')
RECURSIVE StripSpaces(_)
StripSpaces(value) ==
  IF Len(value) = 0 THEN <<>>
  ELSE (IF IsSpace(Head(value)) THEN <<>> ELSE <<Head(value)>>)
         \o StripSpaces(Tail(value))

\* validators.phone: /^[\+]?[1-9][\d]{0,15}$/ on the value without whitespace
PhoneOk(value) ==
  LET stripped == StripSpaces(value)
      digits == IF Len(stripped) > 0 /\ Head(stripped) = "+"
                  THEN Tail(stripped) ELSE stripped
  IN  /\ Len(digits) >= 1
      /\ Len(digits) <= 16
      /\ \A i \in 1..Len(digits) : IsDigit(digits[i])
      /\ digits[1] # "0"

MinLengthStrict(value, min) == Len(value) > min

\* validators.minLength: value.length >= min
MinLengthOk(value, min) == Len(value) >= min

\* The validator table of setupValidation, by name.
ValidatorOk(rule, value) ==
  CASE rule.validator = "required" -> RequiredOk(value)
    [] rule.validator = "email" -> EmailOk(value)
    [] rule.validator = "phone" -> PhoneOk(value)
    [] rule.validator = "minLength" -> MinLengthOk(value, parseInt(rule.param))
    [] OTHER -> TRUE

RuleFailsAlsoWhenEmpty(rule, value) == ~ValidatorOk(rule, value)

\* One condition of the if / else-if chain of validateField: `value &&`
\* guards every validator but required.
RuleFails(rule, value) ==
  IF rule.validator = "required"
    THEN ~RequiredOk(value)
    ELSE Len(value) > 0 /\ ~ValidatorOk(rule, value)

\* The messages of validateField (accents dropped); minLength quotes its
\* parameter.
ErrorMessage(rule) ==
  CASE rule.validator = "required" -> <<"Este campo e obrigatorio">>
    [] rule.validator = "email" -> <<"Digite um email valido">>
    [] rule.validator = "phone" -> <<"Digite um telefone valido">>
    [] OTHER -> <<"Minimo de ", rule.param, " caracteres">>

\* The for loop of validateField: the index of the rule it breaks at, 0 if none.
RECURSIVE FirstFailingFrom(_, _, _)
FirstFailingFrom(rules, value, i) ==
  IF i > Len(rules) THEN 0
  ELSE IF RuleFails(rules[i], value) THEN i
  ELSE FirstFailingFrom(rules, value, i + 1)

FirstFailing(rules, value) == FirstFailingFrom(rules, value, 1)

\* validateField: the field with its classes and error text updated.
validateField(field) ==
  LET failing == FirstFailing(field.rules, field.value)
  IN  IF failing = 0
        THEN [field EXCEPT !.valid = TRUE, !.invalid = FALSE, !.error = <<>>]
        ELSE [field EXCEPT !.valid = FALSE, !.invalid = TRUE,
                           !.error = ErrorMessage(field.rules[failing])]

\* clearFieldError.
clearFieldError(field) == [field EXCEPT !.invalid = FALSE, !.error = <<>>]

NewField(rules, value) ==
  [value |-> value, defaultValue |-> value, rules |-> rules,
   valid |-> FALSE, invalid |-> FALSE, error |-> <<>>]

\* The 5000 ms of showMessage's setTimeout.
messageDelay == 5000

\* The clock of the dismissal timers ticks DelayTicks times per messageDelay.
DelayTicks == 2

\* DOM.query('.form-message') found nothing.
NoMessage == [id |-> 0, type |-> "", text |-> "", age |-> 0]

\* let messageEl = DOM.query('.form-message'): the first attached element.
messageEl == IF formMessages = <<>> THEN NoMessage ELSE formMessages[1]

FoundNone == FALSE

\* if (!messageEl) of showMessage, negated.
FoundMessage == formMessages # <<>>

\* The identity of a newly created element: one that no attached element and
\* no pending timer refers to.
FreshId ==
  CHOOSE id \in 1..(Len(msgTimers) + Len(formMessages) + 1) :
    /\ \A i \in 1..Len(formMessages) : formMessages[i].id # id
    /\ \A i \in 1..Len(msgTimers) : msgTimers[i].el # id

NoForm ==
  /\ inputs = <<>>
  /\ isSubmitting = FALSE
  /\ submitDisabled = FALSE
  /\ pendingCalls = 0
  /\ formMessages = <<>>
  /\ msgTimers = <<>>
  /\ formEvent = <<"none", "">>

\* Values the user sets a field of the submitted form to.
FormValues == { <<>>, <<"a", "b">>, <<"a", "b", "c">> }

FormRuleLists == { <<Required>>, <<Required, MinLength(<<"3">>)>>, <<MinLength(<<"3">>)>> }

\* The form under submission: two fields, empty in the markup, the second
\* one required.
FormInit ==
  /\ inputs \in { <<NewField(r1, <<>>), NewField(<<Required>>, <<>>)>> :
                    r1 \in FormRuleLists }
  /\ isSubmitting = FALSE
  /\ submitDisabled = FALSE
  /\ pendingCalls = 0
  /\ formMessages = <<>>
  /\ msgTimers = <<>>
  /\ formEvent = <<"none", "">>

\* One field whose value is typed key by key.
FieldInit ==
  /\ inputs \in { <<NewField(r, <<>>)>> : r \in RuleLists }
  /\ isSubmitting = FALSE
  /\ submitDisabled = FALSE
  /\ pendingCalls = 0
  /\ formMessages = <<>>
  /\ msgTimers = <<>>
  /\ formEvent = <<"none", "">>

\* showMessage: the element found is reused, else a new one is appended to
\* the form; a dismissal timer closing over that element is started.  `age`
\* is history: the ticks since the element's text was last set.
showMessage(text, type) ==
  /\ Len(msgTimers) < MaxMsgTimers
  /\ LET el == IF FoundMessage THEN messageEl.id ELSE FreshId
         shown == [id |-> el, type |-> type, text |-> text, age |-> 0]
     IN  /\ formMessages' = IF FoundMessage
                               THEN [formMessages EXCEPT ![1] = shown]
                               ELSE Append(formMessages, shown)
         /\ msgTimers' = Append(msgTimers, [el |-> el, remaining |-> DelayTicks])

\* messageEl.parentNode of the timer callback: the element is attached.
IsAttached(el) == \E i \in 1..Len(formMessages) : formMessages[i].id = el

\* if (messageEl.parentNode) removeChild: the timer's element is detached.
RemoveMessage(el) == SelectSeq(formMessages, LAMBDA m : m.id # el)

\* The 5000 ms callback of showMessage; equal delays fire oldest first.
MessageTimeout ==
  /\ msgTimers # <<>>
  /\ Head(msgTimers).remaining = 0
  /\ formMessages' = RemoveMessage(Head(msgTimers).el)
  /\ msgTimers' = Tail(msgTimers)
  /\ formEvent' = <<"timeout", IF IsAttached(Head(msgTimers).el)
                                 THEN "removed" ELSE "detached">>
  /\ UNCHANGED <<inputs, isSubmitting, submitDisabled, pendingCalls>>

\* One tick of the timers' clock passes; a timer that is due fires first.
MessageClock ==
  /\ msgTimers # <<>>
  /\ \A i \in 1..Len(msgTimers) : msgTimers[i].remaining > 0
  /\ msgTimers' = [i \in 1..Len(msgTimers) |->
                     [msgTimers[i] EXCEPT !.remaining = @ - 1]]
  /\ formMessages' = [i \in 1..Len(formMessages) |->
                        [formMessages[i] EXCEPT !.age = Min(@ + 1, DelayTicks)]]
  /\ formEvent' = <<"tick", "">>
  /\ UNCHANGED <<inputs, isSubmitting, submitDisabled, pendingCalls>>

\* validateForm: every input is validated, none is skipped.
validateForm == [i \in 1..Len(inputs) |-> validateField(inputs[i])]

SubmitNeverBlocked == FALSE

\* The guard of handleSubmit.
SubmitBlocked == isSubmitting

\* handleSubmit up to its await.
handleSubmit ==
  IF SubmitBlocked
    THEN /\ formEvent' = <<"submit", "ignored">>
         /\ UNCHANGED <<inputs, isSubmitting, submitDisabled, pendingCalls,
                        formMessages, msgTimers>>
    ELSE /\ inputs' = validateForm
         /\ IF \E i \in 1..Len(inputs) : validateForm[i].invalid
              THEN /\ showMessage("Por favor, corrija os erros", "error")
                   /\ formEvent' = <<"submit", "invalid">>
                   /\ UNCHANGED <<isSubmitting, submitDisabled, pendingCalls>>
              ELSE /\ isSubmitting' = TRUE
                   /\ submitDisabled' = TRUE
                   /\ pendingCalls' = pendingCalls + 1
                   /\ formEvent' = <<"submit", "sent">>
                   /\ UNCHANGED <<formMessages, msgTimers>>

\* this.form.reset() and the removal of 'valid' / 'invalid' from every input.
resetForm ==
  [i \in 1..Len(inputs) |->
     [inputs[i] EXCEPT !.value = inputs[i].defaultValue,
                       !.valid = FALSE, !.invalid = FALSE]]

RejectedInputsReset == resetForm

\* The catch block of handleSubmit touches no input.
RejectedInputs == inputs

\* handleSubmit after its await: the promise of submitToAPI resolved.
SubmitResolved ==
  /\ pendingCalls > 0
  /\ showMessage("Mensagem enviada com sucesso", "success")
  /\ inputs' = resetForm
  /\ isSubmitting' = FALSE
  /\ submitDisabled' = FALSE
  /\ pendingCalls' = pendingCalls - 1
  /\ formEvent' = <<"resolved", "">>

\* handleSubmit after its await when the awaited promise rejected: the catch
\* block, then the finally block.  The submitToAPI of the script only ever
\* resolves; this is handleSubmit around a submitToAPI that can fail.
SubmitRejected ==
  /\ pendingCalls > 0
  /\ showMessage("Erro ao enviar mensagem", "error")
  /\ inputs' = RejectedInputs
  /\ isSubmitting' = FALSE
  /\ submitDisabled' = FALSE
  /\ pendingCalls' = pendingCalls - 1
  /\ formEvent' = <<"rejected", "">>

\* The blur listener.
Blur ==
  \E i \in 1..Len(inputs) :
    /\ inputs' = [inputs EXCEPT ![i] = validateField(inputs[i])]
    /\ formEvent' = <<"blur", "">>
    /\ UNCHANGED <<isSubmitting, submitDisabled, pendingCalls, formMessages,
                   msgTimers>>

\* The input listener, after the user replaced the value.
SetValue ==
  \E i \in 1..Len(inputs), v \in FormValues :
    /\ inputs' = [inputs EXCEPT ![i] = clearFieldError([inputs[i] EXCEPT !.value = v])]
    /\ formEvent' = <<"input", "">>
    /\ UNCHANGED <<isSubmitting, submitDisabled, pendingCalls, formMessages,
                   msgTimers>>

\* The input listener, after a key appended a character.
TypeKey ==
  \E i \in 1..Len(inputs), c \in Keys :
    /\ Len(inputs[i].value) < MaxLen
    /\ inputs' = [inputs EXCEPT ![i] =
         clearFieldError([inputs[i] EXCEPT !.value = Append(inputs[i].value, c)])]
    /\ formEvent' = <<"input", "">>
    /\ UNCHANGED <<isSubmitting, submitDisabled, pendingCalls, formMessages,
                   msgTimers>>

\* The input listener, after backspace removed the last character.
Backspace ==
  \E i \in 1..Len(inputs) :
    /\ Len(inputs[i].value) > 0
    /\ inputs' = [inputs EXCEPT ![i] = clearFieldError(
         [inputs[i] EXCEPT !.value = SubSeq(inputs[i].value, 1, Len(inputs[i].value) - 1)])]
    /\ formEvent' = <<"input", "">>
    /\ UNCHANGED <<isSubmitting, submitDisabled, pendingCalls, formMessages,
                   msgTimers>>

(***************************************************************************)
(*                              WHATSAPP FORM                              *)
(*                                                                         *)
(* Text is a sequence of pieces: a single character, or a word of          *)
(* characters that encodeURIComponent leaves alone.                        *)
(***************************************************************************)
MaxFields == 2

phoneNumber == <<"5511914823015">>

WaNames == {"name", "phone", "obs"}

WaValues == { <<>>, <<" ">>, <<"A", "n", "a">>, <<"1", "1", "9">>, <<"a", " ", "&">> }

NoURL == [base |-> "", phone |-> <<>>, text |-> <<>>]

Greeting ==
  <<"Ol", "[a-acute]", "!", " ", "Gostaria", " ", "de", " ", "solicitar", " ", "um",
    " ", "or", "[c-cedilla]", "amento", ":", "\n", "\n">>

Closing == <<"\n", "Aguardo", " ", "retorno", ".", " ", "Obrigado", "!">>

\* Object.fromEntries(formData.entries()), then Object.entries: a name keeps
\* the place of its first entry and the value of its last.  (Names are not
\* integer-like, which the property order of objects would move to the front.)
RECURSIVE fromEntries(_, _)
fromEntries(entries, i) ==
  IF i > Len(entries) THEN <<>>
  ELSE IF \E j \in 1..(i - 1) : entries[j][1] = entries[i][1]
    THEN fromEntries(entries, i + 1)
  ELSE LET last == CHOOSE j \in i..Len(entries) :
                     /\ entries[j][1] = entries[i][1]
                     /\ \A k \in (j + 1)..Len(entries) : entries[k][1] # entries[i][1]
       IN  <<<<entries[i][1], entries[last][2]>>>> \o fromEntries(entries, i + 1)

\* getFieldLabel.
getFieldLabel(fieldName) ==
  CASE fieldName = "name" -> <<"Nome">>
    [] fieldName = "email" -> <<"Email">>
    [] fieldName = "phone" -> <<"Telefone">>
    [] fieldName = "company" -> <<"Empresa">>
    [] fieldName = "service" -> <<"Servi", "[c-cedilla]", "o">>
    [] fieldName = "budget" -> <<"Or", "[c-cedilla]", "amento">>
    [] fieldName = "message" -> <<"Mensagem">>
    [] fieldName = "project" -> <<"Projeto">>
    [] OTHER -> <<fieldName>>

\* `*${label}:* ${value}\n`
Line(label, value) == <<"*">> \o label \o <<":", "*", " ">> \o value \o <<"\n">>

\* The forEach of handleSubmit over Object.entries(data); value.trim() is
\* truthy exactly when the value has a character that is not whitespace.
RECURSIVE Lines(_)
Lines(data) ==
  IF Len(data) = 0 THEN <<>>
  ELSE (IF RequiredOk(Head(data)[2])
          THEN Line(getFieldLabel(Head(data)[1]), Head(data)[2])
          ELSE <<>>) \o Lines(Tail(data))

\* encodeURIComponent, one piece.
EncodePiece(p) ==
  CASE p = " " -> "%20"
    [] p = "\n" -> "%0A"
    [] p = ":" -> "%3A"
    [] p = "&" -> "%26"
    [] p = "%" -> "%25"
    [] p = "[a-acute]" -> "%C3%A1"
    [] p = "[c-cedilla]" -> "%C3%A7"
    [] OTHER -> p

encodeURIComponent(text) == [i \in 1..Len(text) |-> EncodePiece(text[i])]

\* openWhatsApp.
WhatsAppURL(message) ==
  [base |-> "https://wa.me/", phone |-> phoneNumber,
   text |-> encodeURIComponent(message)]

WhatsAppInit ==
  /\ \E n \in 1..MaxFields :
       waEntries \in [1..n -> {<<name, value>> : name \in WaNames, value \in WaValues}]
  /\ waOpened = NoURL

NoWhatsApp ==
  /\ waEntries = <<>>
  /\ waOpened = NoURL

\* handleSubmit(form) of WhatsAppForm.
WhatsAppSubmit ==
  /\ waOpened' = WhatsAppURL(Greeting \o Lines(fromEntries(waEntries, 1)) \o Closing)
  /\ UNCHANGED waEntries

(***************************************************************************)
(*                                 STORAGE                                 *)
(*                                                                         *)
(* JavaScript values and the texts localStorage holds are named by         *)
(* strings.  A call's outcome is a record: what it returned, or that an    *)
(* exception left it.                                                      *)
(***************************************************************************)
StorageKeys == {"theme", "visits"}

\* No item under the key: localStorage.getItem returns null.
NoItem == "<null>"

\* Values handed to Storage.set and default values handed to Storage.get:
\* a number, a string, null, undefined, an object that refers to itself.
JsValues == {"1", "s", "null", "undefined", "cyclic"}

\* Item texts: what JSON.stringify wrote, the text 'undefined' that setItem
\* makes of undefined, and texts another script left behind.
ItemTexts == {"1", "\"s\"", "null", "undefined", "{", ""}

Return(v) == [threw |-> FALSE, value |-> v]

Throw == [threw |-> TRUE, value |-> "exception"]

\* JSON.stringify: a cyclic object throws; undefined gives undefined, which
\* setItem turns into the text 'undefined'.
JSONstringify(v) ==
  IF v = "cyclic" THEN Throw
  ELSE IF v = "s" THEN Return("\"s\"")
  ELSE Return(v)

\* JSON.parse: throws on a text that is not JSON.
JSONparse(text) ==
  IF text = "\"s\"" THEN Return("s")
  ELSE IF text \in {"1", "null"} THEN Return(text)
  ELSE Throw

NoCatch(body, fallback) == body

\* try { return body } catch (e) { console.warn(...); return fallback }
TryCatch(body, fallback) == IF body.threw THEN Return(fallback) ELSE body

\* The try block of Storage.set; storageFails: localStorage or setItem throws
\* (quota exceeded, storage denied).
SetBody(key, value, storageFails) ==
  IF JSONstringify(value).threw \/ storageFails THEN Throw ELSE Return("true")

\* The try block of Storage.get; an empty item text is falsy.
GetBody(key, defaultValue, storageFails) ==
  IF storageFails THEN Throw
  ELSE IF localStorage[key] \in {NoItem, ""} THEN Return(defaultValue)
  ELSE JSONparse(localStorage[key])

\* The try block of Storage.remove.
RemoveBody(key, storageFails) == IF storageFails THEN Throw ELSE Return("true")

NoCall ==
  [op |-> "none", key |-> "", arg |-> "", bodyThrew |-> FALSE, result |-> Return("")]

StorageInit ==
  /\ localStorage \in [StorageKeys -> {NoItem} \cup ItemTexts]
  /\ everStored = {k \in StorageKeys : localStorage[k] # NoItem}
  /\ storageCall = NoCall

NoStorage ==
  /\ localStorage = [k \in StorageKeys |-> NoItem]
  /\ everStored = {}
  /\ storageCall = NoCall

\* Storage.set(key, value).
StorageSet ==
  \E key \in StorageKeys, value \in JsValues, storageFails \in BOOLEAN :
    LET body == SetBody(key, value, storageFails)
    IN  /\ localStorage' = IF body.threw THEN localStorage
                           ELSE [localStorage EXCEPT ![key] = JSONstringify(value).value]
        /\ everStored' = IF body.threw THEN everStored ELSE everStored \cup {key}
        /\ storageCall' = [op |-> "set", key |-> key, arg |-> value,
                           bodyThrew |-> body.threw,
                           result |-> TryCatch(body, "false")]

\* Storage.get(key, defaultValue).
StorageGet ==
  \E key \in StorageKeys, defaultValue \in JsValues \ {"cyclic"},
     storageFails \in BOOLEAN :
    LET body == GetBody(key, defaultValue, storageFails)
    IN  /\ storageCall' = [op |-> "get", key |-> key, arg |-> defaultValue,
                           bodyThrew |-> body.threw,
                           result |-> TryCatch(body, defaultValue)]
        /\ UNCHANGED <<localStorage, everStored>>

\* Storage.remove(key).
StorageRemove ==
  \E key \in StorageKeys, storageFails \in BOOLEAN :
    LET body == RemoveBody(key, storageFails)
    IN  /\ localStorage' = IF body.threw THEN localStorage
                           ELSE [localStorage EXCEPT ![key] = NoItem]
        /\ storageCall' = [op |-> "remove", key |-> key, arg |-> "",
                           bodyThrew |-> body.threw,
                           result |-> TryCatch(body, "false")]
        /\ UNCHANGED everStored

(***************************************************************************)
(*                                   APP                                   *)
(*                                                                         *)
(* What a module does once constructed is the part of the model that       *)
(* bears its name; here a module is the key under which App registers it.  *)
(***************************************************************************)
\* initializeModules: the assignments to this.modules, top to bottom.
ModuleOrder ==
  <<"navigation", "heroEffects", "portfolio", "testimonials", "contactForm",
    "whatsappForm">>

\* The position of the first constructor that throws, or one past the last.
FirstThrowing ==
  CHOOSE k \in 1..(Len(ModuleOrder) + 1) :
    /\ \A j \in 1..(k - 1) : ModuleOrder[j] \notin throwing
    /\ k <= Len(ModuleOrder) => ModuleOrder[k] \in throwing

RegisteredNone(k) == <<>>

\* The keys assigned when the constructor at position k throws: an assignment
\* whose right-hand side throws does not happen, the earlier ones stay.
Registered(k) == SubSeq(ModuleOrder, 1, k - 1)

Called(k) == SubSeq(ModuleOrder, 1, Min(k, Len(ModuleOrder)))

\* Before App.start has run: init calls it right away or on DOMContentLoaded.
AppInit ==
  /\ throwing \in SUBSET {ModuleOrder[i] : i \in 1..Len(ModuleOrder)}
  /\ appPhase = "waiting"
  /\ modules = <<>>
  /\ constructorCalls = <<>>
  /\ isLoaded = FALSE
  /\ startEscaped = FALSE
  /\ loadingScreen \in {"absent", "shown"}
  /\ globalEvents = FALSE

\* No App in the specifications of a single module.
NoApp ==
  /\ throwing = {}
  /\ appPhase = "none"
  /\ modules = <<>>
  /\ constructorCalls = <<>>
  /\ isLoaded = FALSE
  /\ startEscaped = FALSE
  /\ loadingScreen = "absent"
  /\ globalEvents = FALSE

\* start up to its first wait: initializeModules constructs until a
\* constructor throws; the rejected promise is awaited inside try, so the
\* catch block of start logs the error and start returns.
start ==
  /\ appPhase = "waiting"
  /\ LET body == IF FirstThrowing <= Len(ModuleOrder) THEN Throw ELSE Return("")
     IN  /\ modules' = Registered(FirstThrowing)
         /\ constructorCalls' = Called(FirstThrowing)
         /\ startEscaped' = TryCatch(body, "").threw
         /\ appPhase' = IF body.threw THEN "failed" ELSE "initializing"
  /\ UNCHANGED <<throwing, isLoaded, loadingScreen, globalEvents>>

\* The end of start: setupGlobalEvents, then isLoaded = true.
FinishStart ==
  /\ globalEvents' = TRUE
  /\ isLoaded' = TRUE
  /\ appPhase' = "loaded"

\* The 100 ms wait of initializeModules is over: hideLoadingScreen starts its
\* 1500 ms wait when there is a loading screen, else start finishes.
ModulesDelayElapsed ==
  /\ appPhase = "initializing"
  /\ IF loadingScreen = "shown"
       THEN /\ appPhase' = "hiding"
            /\ UNCHANGED <<isLoaded, globalEvents>>
       ELSE FinishStart
  /\ UNCHANGED <<throwing, modules, constructorCalls, startEscaped, loadingScreen>>

\* The 1500 ms wait of hideLoadingScreen is over: the screen gets 'hidden',
\* the 500 ms removal timer starts, start finishes.
HideDelayElapsed ==
  /\ appPhase = "hiding"
  /\ loadingScreen' = "hidden"
  /\ FinishStart
  /\ UNCHANGED <<throwing, modules, constructorCalls, startEscaped>>

\* The 500 ms callback of hideLoadingScreen.
RemoveLoadingScreen ==
  /\ loadingScreen = "hidden"
  /\ loadingScreen' = "removed"
  /\ UNCHANGED <<throwing, appPhase, modules, constructorCalls, isLoaded,
                 startEscaped, globalEvents>>

(***************************************************************************)
(*                               NAVIGATION                                *)
(*                                                                         *)
(* Lengths are in units of a third of a pixel row, so that innerHeight / 3 *)
(* is compared exactly: positions are multiplied by three.                 *)
(***************************************************************************)
MaxScroll == 8

MaxLinks == 2

\* A link without href attribute: getAttribute returns null.
NoHref == <<"?">>

\* href of the navigation links: the page top, two sections, another page.
Hrefs == { <<"#">>, <<"#", "a">>, <<"#", "b">>, <<"/">>, NoHref }

\* Pages: sections in document order, side by side, nested, or with gaps.
SectionLayouts ==
  { <<[id |-> <<"a">>, offsetTop |-> 0, offsetHeight |-> 4],
      [id |-> <<"b">>, offsetTop |-> 4, offsetHeight |-> 4]>>,
    <<[id |-> <<"a">>, offsetTop |-> 0, offsetHeight |-> 6],
      [id |-> <<"b">>, offsetTop |-> 2, offsetHeight |-> 2]>>,
    <<[id |-> <<"b">>, offsetTop |-> 3, offsetHeight |-> 2],
      [id |-> <<"a">>, offsetTop |-> 7, offsetHeight |-> 2]>>,
    <<>> }

InnerHeights == {3, 4}

\* sections.forEach of updateActiveLink from section i on: a later section
\* that contains the position overwrites activeSection.
RECURSIVE ActiveSectionFrom(_, _, _)
ActiveSectionFrom(i, position3, activeSection) ==
  IF i > Len(navSections) THEN activeSection
  ELSE LET sectionTop == navSections[i].offsetTop
           sectionHeight == navSections[i].offsetHeight
       IN  ActiveSectionFrom(i + 1, position3,
             IF /\ position3 >= 3 * sectionTop
                /\ position3 < 3 * (sectionTop + sectionHeight)
               THEN navSections[i].id
               ELSE activeSection)

\* updateActiveLink with the window at (y, h): the links that get 'active';
\* activeSection starts as the empty string.
updateActiveLink(y, h) ==
  LET activeSection == ActiveSectionFrom(1, 3 * y + h, <<>>)
  IN  {l \in 1..Len(navLinks) : navLinks[l] = <<"#">> \o activeSection}

\* this.scrollThreshold of the constructor.
scrollThreshold == 100

\* The delay of the throttled scroll listener.
scrollDelay == 16

\* The delay of the debounced resize listener.
resizeDelay == 250

\* No timer pending: clearTimeout of such a timeoutId does nothing.
NoTimer == -1

\* Window widths at and just above the breakpoint of Device.isMobile.
Widths == {768, 769}

\* Scroll offsets around scrollThreshold.
ScrollOffsets == {0, 100, 101}

\* Date.now() - lastExecTime beyond the delay: lastExecTime starts as 0.
LongAgo == scrollDelay + 1

\* Device.isMobile with the breakpoint itself counted as desktop.
isMobileBelow(w) == w < 768

isMobile(w) == w <= 768

\* The classes and attributes that openMobileMenu and closeMobileMenu write.
RenderedOpen ==
  [menuActive |-> TRUE, toggleActive |-> TRUE, noScroll |-> TRUE,
   ariaExpanded |-> "true", ariaHidden |-> "false"]

RenderedClosed ==
  [menuActive |-> FALSE, toggleActive |-> FALSE, noScroll |-> FALSE,
   ariaExpanded |-> "false", ariaHidden |-> "true"]

\* The page as delivered: no class set, the aria attributes absent or closed.
MarkupStates ==
  { [RenderedClosed EXCEPT !.ariaExpanded = "", !.ariaHidden = ""],
    RenderedClosed }

\* The menu as a handler sees it; calls counts the openMobileMenu and
\* closeMobileMenu calls of the running event dispatch.
CurrentMenu == [isMenuOpen |-> isMenuOpen, dom |-> menuDom, calls |-> 0]

\* openMobileMenu that forgets the body class.
openWithoutNoScroll(m) ==
  [isMenuOpen |-> TRUE,
   dom |-> [m.dom EXCEPT !.menuActive = TRUE, !.toggleActive = TRUE,
                         !.ariaExpanded = "true", !.ariaHidden = "false"],
   calls |-> m.calls + 1]

openMobileMenu(m) ==
  [isMenuOpen |-> TRUE,
   dom |-> [m.dom EXCEPT !.menuActive = TRUE, !.toggleActive = TRUE,
                         !.noScroll = TRUE, !.ariaExpanded = "true",
                         !.ariaHidden = "false"],
   calls |-> m.calls + 1]

closeMobileMenu(m) ==
  [isMenuOpen |-> FALSE,
   dom |-> [m.dom EXCEPT !.menuActive = FALSE, !.toggleActive = FALSE,
                         !.noScroll = FALSE, !.ariaExpanded = "false",
                         !.ariaHidden = "true"],
   calls |-> m.calls + 1]

toggleMobileMenu(m) ==
  IF m.isMenuOpen THEN closeMobileMenu(m) ELSE openMobileMenu(m)

\* DOM.query('#' + targetId) finds an element; for href "#" the selector is
\* invalid and querySelector throws, which ends handleNavClick as well.
TargetExists(href) ==
  \E i \in 1..Len(navSections) : navSections[i].id = Tail(href)

\* handleNavClick on a link with this href; the smooth scroll it starts
\* arrives later as scroll events.
handleNavClick(m, href) ==
  IF href # NoHref /\ Head(href) = "#" /\ TargetExists(href) /\ m.isMenuOpen
    THEN closeMobileMenu(m)
    ELSE m

\* this.mobileMenu.contains(e.target), this.navToggle.contains(e.target).
InMenu(target) == target.where = "menu"

\* A check of the toggle that never finds the target in it.
InToggleNever(target) == FALSE

InToggle(target) == target.where = "toggle"

\* The click listener of document.
documentClick(m, target) ==
  IF m.isMenuOpen /\ ~InMenu(target) /\ ~InToggle(target)
    THEN closeMobileMenu(m)
    ELSE m

\* A link to an element that does not exist, besides the links of Hrefs.
ClickHrefs == Hrefs \cup { <<"#", "z">> }

\* What can be clicked: the toggle, and inside or outside the menu a link
\* of navLinks / mobileLinks or anything else.
ClickTargets ==
  { [where |-> "toggle", link |-> FALSE, href |-> NoHref] }
  \cup { [where |-> w, link |-> TRUE, href |-> h] :
           w \in {"menu", "outside"}, h \in ClickHrefs }
  \cup { [where |-> w, link |-> FALSE, href |-> NoHref] :
           w \in {"menu", "outside"} }

NoClick == [where |-> "none", link |-> FALSE, href |-> NoHref, calls |-> 0]

\* A throttle whose second branch sets no timer.
NoTrailingCall(delay, age) == NoTimer

\* The delay of the timer the second branch of throttle sets.
RemainingDelay(delay, age) == delay - age

\* handleHeaderScroll at offset y: whether the header gets 'scrolled'.
handleHeaderScroll(y) == y > scrollThreshold

\* After the constructor, the page at its top: init has called
\* updateActiveLink once. The page has a toggle and a mobile menu.
NavigationInit ==
  /\ navSections \in SectionLayouts
  /\ \E n \in 1..MaxLinks : navLinks \in [1..n -> Hrefs]
  /\ scrollY = 0
  /\ innerHeight \in InnerHeights
  /\ activeLinks = updateActiveLink(scrollY, innerHeight)
  /\ navEvent = "updateActiveLink"
  /\ isMenuOpen = FALSE
  /\ menuDom \in MarkupStates
  /\ innerWidth \in Widths
  /\ resizeTimer = NoTimer
  /\ clicked = NoClick
  /\ headerScrolled = FALSE
  /\ lastExecAge = LongAgo
  /\ throttleTimer = NoTimer
  /\ throttleEvent = "none"

NoNavigation ==
  /\ navSections = <<>>
  /\ navLinks = <<>>
  /\ scrollY = 0
  /\ innerHeight = 0
  /\ activeLinks = {}
  /\ navEvent = "none"
  /\ isMenuOpen = FALSE
  /\ menuDom = RenderedClosed
  /\ innerWidth = 0
  /\ resizeTimer = NoTimer
  /\ clicked = NoClick
  /\ headerScrolled = FALSE
  /\ lastExecAge = LongAgo
  /\ throttleTimer = NoTimer
  /\ throttleEvent = "none"

\* The callback of the scroll listener with the window at offset y:
\* updateScrollProgress (no progress bar here), updateActiveLink and
\* handleHeaderScroll.
ScrollListener(y) ==
  /\ activeLinks' = updateActiveLink(y, innerHeight)
  /\ headerScrolled' = handleHeaderScroll(y)
  /\ navEvent' = "updateActiveLink"

\* The throttled scroll listener, run after the window scrolled to y.
NavScroll ==
  /\ \E y \in 0..MaxScroll :
       /\ scrollY' = y
       /\ ScrollListener(y)
  /\ UNCHANGED <<navSections, navLinks, innerHeight, menuVars, lastExecAge,
                 throttleTimer, throttleEvent>>

\* A scroll event to offset y reaches the function Performance.throttle
\* returned: the callback runs at once when the last run is more than delay
\* ago, else the pending timer is replaced by one for the rest of the delay.
\* The first branch leaves a pending timer alone.
ScrollEvent ==
  /\ \E y \in ScrollOffsets :
       /\ scrollY' = y
       /\ IF lastExecAge > scrollDelay
            THEN /\ ScrollListener(y)
                 /\ lastExecAge' = 0
                 /\ throttleEvent' = "immediate"
                 /\ UNCHANGED throttleTimer
            ELSE /\ throttleTimer' = RemainingDelay(scrollDelay, lastExecAge)
                 /\ throttleEvent' = "deferred"
                 /\ navEvent' = "scroll"
                 /\ UNCHANGED <<activeLinks, headerScrolled, lastExecAge>>
  /\ UNCHANGED <<navSections, navLinks, innerHeight, menuVars>>

\* The timer of the throttle closure fires, when due or later: the callback
\* runs with the window where it is now, lastExecTime = Date.now().
ThrottleTimeout ==
  /\ throttleTimer = 0
  /\ ScrollListener(scrollY)
  /\ lastExecAge' = 0
  /\ throttleTimer' = NoTimer
  /\ throttleEvent' = "trailing"
  /\ UNCHANGED <<navSections, navLinks, scrollY, innerHeight, menuVars>>

\* One millisecond passes; a due timer may still be waiting for its turn.
ThrottleClock ==
  /\ lastExecAge' = Min(lastExecAge + 1, LongAgo)
  /\ throttleTimer' = IF throttleTimer > 0 THEN throttleTimer - 1 ELSE throttleTimer
  /\ throttleEvent' = "tick"
  /\ UNCHANGED <<navSections, navLinks, scrollY, innerHeight, activeLinks,
                 navEvent, headerScrolled, menuVars>>

SetMenu(m) ==
  /\ isMenuOpen' = m.isMenuOpen
  /\ menuDom' = m.dom

\* One click: the listener of the toggle or of the link runs first, then
\* the event reaches the listener of document.
NavClick ==
  /\ \E target \in ClickTargets :
       LET atTarget == IF InToggle(target) THEN toggleMobileMenu(CurrentMenu)
                       ELSE IF target.link
                         THEN handleNavClick(CurrentMenu, target.href)
                         ELSE CurrentMenu
           atDocument == documentClick(atTarget, target)
       IN  /\ SetMenu(atDocument)
           /\ clicked' = [where |-> target.where, link |-> target.link,
                          href |-> target.href, calls |-> atDocument.calls]
  /\ navEvent' = "click"
  /\ UNCHANGED <<navSections, navLinks, scrollY, innerHeight, activeLinks,
                 innerWidth, resizeTimer, throttleVars>>

\* The keydown listener of App.setupGlobalEvents, key Escape.
NavEscape ==
  /\ globalEvents
  /\ \E i \in 1..Len(modules) : modules[i] = "navigation"
  /\ SetMenu(IF isMenuOpen THEN closeMobileMenu(CurrentMenu) ELSE CurrentMenu)
  /\ navEvent' = IF isMenuOpen THEN "EscapeClosed" ELSE "EscapeKept"
  /\ UNCHANGED <<navSections, navLinks, scrollY, innerHeight, activeLinks,
                 innerWidth, resizeTimer, clicked, throttleVars>>

\* The window is resized: the function Performance.debounce returned clears
\* the pending timer and sets a new one; updateActiveLink is not called.
NavResize ==
  /\ \E h \in InnerHeights : innerHeight' = h
  /\ \E w \in Widths : innerWidth' = w
  /\ resizeTimer' = resizeDelay
  /\ navEvent' = "resize"
  /\ UNCHANGED <<navSections, navLinks, scrollY, activeLinks, isMenuOpen,
                 menuDom, clicked, throttleVars>>

\* resizeDelay ms have passed since the last resize event: the callback.
ResizeTimeout ==
  /\ resizeTimer # NoTimer
  /\ resizeTimer' = NoTimer
  /\ LET closes == ~isMobile(innerWidth) /\ isMenuOpen
     IN  /\ SetMenu(IF closes THEN closeMobileMenu(CurrentMenu) ELSE CurrentMenu)
         /\ navEvent' = IF closes THEN "resizeClosed" ELSE "resizeKept"
  /\ UNCHANGED <<navSections, navLinks, scrollY, innerHeight, activeLinks,
                 innerWidth, clicked, throttleVars>>

(***************************************************************************)
(*                             SPECIFICATIONS                              *)
(***************************************************************************)
notTestimonials == <<portVars, heroVars, formVars, waVars, storVars, appVars,
  navVars>>

notPortfolio == <<testVars, heroVars, formVars, waVars, storVars, appVars,
  navVars>>

notHero == <<testVars, portVars, formVars, waVars, storVars, appVars,
  navVars>>

notForm == <<testVars, portVars, heroVars, waVars, storVars, appVars,
  navVars>>

notWhatsApp == <<testVars, portVars, heroVars, formVars, storVars, appVars,
  navVars>>

notStorage == <<testVars, portVars, heroVars, formVars, waVars, appVars,
  navVars>>

notApp == <<testVars, portVars, heroVars, formVars, waVars, storVars, navVars>>

notNavigation ==
  <<testVars, portVars, heroVars, formVars, waVars, storVars, appVars>>

\* ---- The testimonial carousel.
TestimonialsStart ==
  TestimonialsInit /\ NoPortfolio /\ NoHero /\ NoForm /\ NoWhatsApp /\ NoStorage /\ NoApp
  /\ NoNavigation

TestimonialsNext ==
  \/ ClickPrev /\ UNCHANGED notTestimonials
  \/ ClickNext /\ UNCHANGED notTestimonials
  \/ ClickIndicator /\ UNCHANGED notTestimonials
  \/ TouchStart /\ UNCHANGED notTestimonials
  \/ TouchEnd /\ UNCHANGED notTestimonials
  \/ AutoplayTick /\ UNCHANGED notTestimonials
  \/ MouseEnter /\ UNCHANGED notTestimonials
  \/ MouseLeave /\ UNCHANGED notTestimonials

SpecTestimonials == TestimonialsStart /\ [][TestimonialsNext]_vars

\* ---- The portfolio grid, clicks and timers interleaved freely.
PortfolioStart ==
  NoTestimonials /\ PortfolioInit /\ NoHero /\ NoForm /\ NoWhatsApp /\ NoStorage /\ NoApp
  /\ NoNavigation

PortfolioNext ==
  \/ ClickFilter /\ UNCHANGED notPortfolio
  \/ loadMore /\ UNCHANGED notPortfolio
  \/ FireFilterTimer /\ UNCHANGED notPortfolio
  \/ FireRevealTimer /\ UNCHANGED notPortfolio
  \/ AdvanceTime /\ UNCHANGED notPortfolio

SpecPortfolio == PortfolioStart /\ [][PortfolioNext]_vars

\* ---- The portfolio grid, every operation's timers finishing before the next.
PortfolioSeqNext ==
  \/ timers = {} /\ ClickFilter /\ UNCHANGED notPortfolio
  \/ timers = {} /\ loadMore /\ UNCHANGED notPortfolio
  \/ FireFilterTimer /\ UNCHANGED notPortfolio
  \/ FireRevealTimer /\ UNCHANGED notPortfolio
  \/ AdvanceTime /\ UNCHANGED notPortfolio

SpecPortfolioSeq == PortfolioStart /\ [][PortfolioSeqNext]_vars

\* ---- The particle animation.
ParticlesStart ==
  NoTestimonials /\ NoPortfolio /\ ParticlesInit /\ NoForm /\ NoWhatsApp /\ NoStorage /\ NoApp
  /\ NoNavigation

ParticlesNext ==
  \/ AnimateParticles /\ UNCHANGED notHero
  \/ HeroIntersection /\ UNCHANGED notHero
  \/ ResizeCanvas /\ UNCHANGED notHero

SpecParticles == ParticlesStart /\ [][ParticlesNext]_vars

\* ---- The particle animation and its teardown, on a square canvas with the
\* particle on the diagonal.
AnimationStart ==
  /\ ParticlesStart
  /\ canvas.width = canvas.height
  /\ particleArray[1].x = particleArray[1].y
  /\ particleArray[1].speedX = particleArray[1].speedY

AnimationNext ==
  \/ AnimateParticles /\ UNCHANGED notHero
  \/ HeroIntersection /\ UNCHANGED notHero
  \/ ResizeCanvas /\ UNCHANGED notHero
  \/ destroy /\ UNCHANGED notHero

SpecAnimation == AnimationStart /\ [][AnimationNext]_vars

\* ---- One counter element.
CounterStart ==
  NoTestimonials /\ NoPortfolio /\ CounterInit /\ NoForm /\ NoWhatsApp /\ NoStorage /\ NoApp
  /\ NoNavigation

CounterNext ==
  \/ CounterIntersection /\ UNCHANGED notHero
  \/ CounterFrame /\ UNCHANGED notHero

SpecCounter == CounterStart /\ [][CounterNext]_vars

\* ---- One validated field.
FieldStart ==
  NoTestimonials /\ NoPortfolio /\ NoHero /\ FieldInit /\ NoWhatsApp /\ NoStorage /\ NoApp
  /\ NoNavigation

FieldNext ==
  \/ TypeKey /\ UNCHANGED notForm
  \/ Backspace /\ UNCHANGED notForm
  \/ Blur /\ UNCHANGED notForm

SpecField == FieldStart /\ [][FieldNext]_vars

\* ---- The contact form and its submission.
FormStart ==
  NoTestimonials /\ NoPortfolio /\ NoHero /\ FormInit /\ NoWhatsApp /\ NoStorage /\ NoApp
  /\ NoNavigation

FormNext ==
  \/ SetValue /\ UNCHANGED notForm
  \/ Blur /\ UNCHANGED notForm
  \/ handleSubmit /\ UNCHANGED notForm
  \/ SubmitResolved /\ UNCHANGED notForm
  \/ MessageTimeout /\ UNCHANGED notForm
  \/ MessageClock /\ UNCHANGED notForm

SpecForm == FormStart /\ [][FormNext]_vars

\* ---- The contact form around a submitToAPI that can reject.
FormRejectNext ==
  \/ SetValue /\ UNCHANGED notForm
  \/ Blur /\ UNCHANGED notForm
  \/ handleSubmit /\ UNCHANGED notForm
  \/ SubmitResolved /\ UNCHANGED notForm
  \/ SubmitRejected /\ UNCHANGED notForm
  \/ MessageTimeout /\ UNCHANGED notForm
  \/ MessageClock /\ UNCHANGED notForm

SpecFormReject == FormStart /\ [][FormRejectNext]_vars

\* ---- One WhatsApp form.
WhatsAppStart ==
  NoTestimonials /\ NoPortfolio /\ NoHero /\ NoForm /\ WhatsAppInit /\ NoStorage /\ NoApp
  /\ NoNavigation

WhatsAppNext == WhatsAppSubmit /\ UNCHANGED notWhatsApp

SpecWhatsApp == WhatsAppStart /\ [][WhatsAppNext]_vars

\* ---- The Storage wrapper, called by any script of the page.
StorageStart ==
  NoTestimonials /\ NoPortfolio /\ NoHero /\ NoForm /\ NoWhatsApp /\ StorageInit
  /\ NoApp /\ NoNavigation

StorageNext ==
  \/ StorageSet /\ UNCHANGED notStorage
  \/ StorageGet /\ UNCHANGED notStorage
  \/ StorageRemove /\ UNCHANGED notStorage

SpecStorage == StorageStart /\ [][StorageNext]_vars

\* ---- The bootstrap of the page.
AppStart ==
  NoTestimonials /\ NoPortfolio /\ NoHero /\ NoForm /\ NoWhatsApp /\ NoStorage
  /\ AppInit /\ NoNavigation

AppNext ==
  \/ start /\ UNCHANGED notApp
  \/ ModulesDelayElapsed /\ UNCHANGED notApp
  \/ HideDelayElapsed /\ UNCHANGED notApp
  \/ RemoveLoadingScreen /\ UNCHANGED notApp

SpecApp == AppStart /\ [][AppNext]_vars

\* ---- The navigation bar.
NavigationStart ==
  NoTestimonials /\ NoPortfolio /\ NoHero /\ NoForm /\ NoWhatsApp /\ NoStorage
  /\ NoApp /\ NavigationInit

NavigationNext ==
  \/ NavScroll /\ UNCHANGED notNavigation
  \/ NavResize /\ UNCHANGED notNavigation
  \/ ResizeTimeout /\ UNCHANGED notNavigation

SpecNavigation == NavigationStart /\ [][NavigationNext]_vars

\* ---- The mobile menu, on a page of two sections while App.start waits to
\* hide the loading screen or after it has finished.
AppRunning ==
  /\ throwing = {}
  /\ modules = ModuleOrder
  /\ constructorCalls = ModuleOrder
  /\ startEscaped = FALSE
  /\ \/ appPhase = "hiding" /\ loadingScreen = "shown"
        /\ isLoaded = FALSE /\ globalEvents = FALSE
     \/ appPhase = "loaded" /\ loadingScreen = "absent"
        /\ isLoaded = TRUE /\ globalEvents = TRUE

OnePage ==
  /\ navSections = <<[id |-> <<"a">>, offsetTop |-> 0, offsetHeight |-> 4],
                     [id |-> <<"b">>, offsetTop |-> 4, offsetHeight |-> 4]>>
  /\ navLinks = << <<"#", "a">>, <<"#", "b">> >>

MenuStart ==
  NoTestimonials /\ NoPortfolio /\ NoHero /\ NoForm /\ NoWhatsApp /\ NoStorage
  /\ AppRunning /\ NavigationInit /\ OnePage

MenuNext ==
  \/ NavClick /\ UNCHANGED notNavigation
  \/ NavEscape /\ UNCHANGED notNavigation
  \/ NavResize /\ UNCHANGED notNavigation
  \/ ResizeTimeout /\ UNCHANGED notNavigation

SpecMenu == MenuStart /\ [][MenuNext]_vars

\* ---- The throttled scroll listener, on the same page.
ScrollStart ==
  NoTestimonials /\ NoPortfolio /\ NoHero /\ NoForm /\ NoWhatsApp /\ NoStorage
  /\ NoApp /\ NavigationInit /\ OnePage

ScrollNext ==
  \/ ScrollEvent /\ UNCHANGED notNavigation
  \/ ThrottleTimeout /\ UNCHANGED notNavigation
  \/ ThrottleClock /\ UNCHANGED notNavigation

SpecScroll == ScrollStart /\ [][ScrollNext]_vars

(***************************************************************************)
(*                                 CLAIMS                                  *)
(***************************************************************************)
\* Items without the 'hidden' class.
VisibleItems == (1..Len(items)) \ hiddenItems

\* The first page * itemsPerPage items of the sequence filtered by `filter`.
Window(filter, page) ==
  LET filtered == getFilteredItems(filter)
  IN  {filtered[j] : j \in 1..Min(page * itemsPerPage, Len(filtered))}

\* k: on how many items the filter's category is present ('all': on every item).
MatchCount(filter) ==
  Cardinality({i \in 1..Len(items) :
                 filter = All \/ Includes(Categories(items[i]), filter)})

\* C2: under any interleaving of filter clicks, load-more clicks and timer
\* firings, once no reveal timer is pending the items without 'hidden' are
\* exactly the first currentPage * itemsPerPage items of the sequence filtered
\* by currentFilter.  (Stated as claimed; SpecPortfolio violates it.)
C2_VisibleIsWindowWhenQuiet ==
  timers = {} => VisibleItems = Window(currentFilter, currentPage)

\* C3, as claimed: with every operation's timers finished before the next
\* operation, after a click on a filter button (any, the active one included)
\* and `loads` loadMore calls since, min(k, itemsPerPage * (loads + 1)) items
\* are visible.  (SpecPortfolioSeq violates it: a click on the active filter
\* returns early and keeps the page.)
C3_CountAfterAnyFilterClick ==
  timers = {} =>
    Cardinality(VisibleItems) =
      Min(MatchCount(currentFilter), itemsPerPage * (loadsSinceClick + 1))

\* C3, amended: with every operation's timers finished before the next
\* operation, after the latest change of filter (a click on a filter other than
\* the active one, or construction with 'all') and `loads` loadMore calls since,
\* min(k, itemsPerPage * (loads + 1)) items are visible; a click on the active
\* filter changes nothing.
C3_CountAfterFilterChange ==
  timers = {} =>
    /\ currentPage = loadsSinceChange + 1
    /\ Cardinality(VisibleItems) =
         Min(MatchCount(currentFilter), itemsPerPage * (loadsSinceChange + 1))

\* C3 witness: a category filter with more matches than one page, after a
\* loadMore, all timers done: the second page is visible too.
C3_Witness ==
  /\ timers = {}
  /\ currentFilter # All
  /\ loadsSinceChange = 1
  /\ MatchCount(currentFilter) > itemsPerPage
  /\ Cardinality(VisibleItems) = MatchCount(currentFilter)

\* C4: in every reachable state of the carousel, 0 <= currentIndex < cards.length.
\* (Stated as claimed; SpecTestimonials violates it through goTo.)
C4_IndexInRange == 0 <= currentIndex /\ currentIndex < numCards

ValidIndex(i) == 0 <= i /\ i < numCards

\* The latest n calls recorded in hist were all `op`.
LastWere(n, op) ==
  /\ Len(hist) >= n
  /\ \A j \in (Len(hist) - n + 1)..Len(hist) : hist[j][1] = op

\* C5: from a valid index, cards.length calls of next return currentIndex to
\* where it started, and prev undoes next and next undoes prev.
C5_NextCycleAndInverse ==
  /\ (LastWere(numCards, "next") /\ ValidIndex(hist[Len(hist) - numCards + 1][2]))
       => currentIndex = hist[Len(hist) - numCards + 1][2]
  /\ (/\ Len(hist) >= 2
      /\ ValidIndex(hist[Len(hist) - 1][2])
      /\ \/ hist[Len(hist) - 1][1] = "next" /\ hist[Len(hist)][1] = "prev"
         \/ hist[Len(hist) - 1][1] = "prev" /\ hist[Len(hist)][1] = "next")
       => currentIndex = hist[Len(hist) - 1][2]

\* C5 witness: three or more cards, a full round of next calls started away
\* from card 0 and arrived back there.
C5_Witness ==
  /\ numCards >= 3
  /\ LastWere(numCards, "next")
  /\ hist[Len(hist) - numCards + 1][2] >= 1
  /\ ValidIndex(hist[Len(hist) - numCards + 1][2])
  /\ currentIndex = hist[Len(hist) - numCards + 1][2]

\* C6: a particle created inside the canvas stays, after any number of
\* updateParticles steps, within 0 <= x <= width and 0 <= y <= height (the
\* canvas keeping the size it was created for).  (Stated as claimed;
\* SpecParticles violates it.)
C6_ParticlesInsideCanvas ==
  ~resized =>
    \A i \in 1..Len(particleArray) :
      /\ 0 <= particleArray[i].x /\ particleArray[i].x <= canvas.width
      /\ 0 <= particleArray[i].y /\ particleArray[i].y <= canvas.height

\* C7: for non-decreasing frame timestamps the written value never decreases
\* from one frame to the next, no frame is scheduled once the elapsed time has
\* reached the duration, and the last value written is the target.
C7_CounterMonotoneAndExact ==
  /\ (counter.written /\ counter.prevWritten) => counter.prevText <= counter.text
  /\ (counter.written /\ counter.lastFrame - counter.startTime >= duration)
       => ~counter.scheduled
  /\ (counter.written /\ ~counter.scheduled)
       => counter.text = parseInt(counter.target)

\* C7 witness: the counter with target 100 finished at 100 after a frame that
\* wrote less.
C7_Witness ==
  /\ counter.target = <<"1", "0", "0">>
  /\ counter.written /\ counter.prevWritten /\ ~counter.scheduled
  /\ counter.prevText > 0
  /\ counter.prevText < counter.text
  /\ counter.text = 100

Blank(value) == \A i \in 1..Len(value) : value[i] = " "

Validated == formEvent[1] = "blur" /\ Len(inputs) = 1

IsRequiredMinLength(rules) ==
  /\ Len(rules) = 2
  /\ rules[1].validator = "required"
  /\ rules[2].validator = "minLength"

\* C8: a field with required|minLength:N is marked invalid when its value is
\* empty or shorter than N, and valid when it has N or more characters and is
\* not blank.
C8_RequiredMinLength ==
  (Validated /\ IsRequiredMinLength(inputs[1].rules)) =>
    LET f == inputs[1]
        N == parseInt(f.rules[2].param)
    IN  /\ Len(f.value) < N => (f.invalid /\ ~f.valid)
        /\ (Len(f.value) >= N /\ ~Blank(f.value)) => (f.valid /\ ~f.invalid)

\* C8 witness: required|minLength:3 validated with a two-character value.
C8_Witness ==
  /\ Validated
  /\ inputs[1].rules = <<Required, MinLength(<<"3">>)>>
  /\ inputs[1].value = <<"a", "a">>
  /\ inputs[1].invalid
  /\ inputs[1].error = <<"Minimo de ", <<"3">>, " caracteres">>

\* The first rule of the list, if any, that satisfies Fails(_).
FirstRule(rules, Fails(_)) ==
  IF \E i \in 1..Len(rules) : Fails(rules[i])
    THEN CHOOSE i \in 1..Len(rules) :
           Fails(rules[i]) /\ \A j \in 1..(i - 1) : ~Fails(rules[j])
    ELSE 0

MarkedBy(f, first) ==
  IF first = 0
    THEN f.valid /\ ~f.invalid /\ f.error = <<>>
    ELSE f.invalid /\ ~f.valid /\ f.error = ErrorMessage(f.rules[first])

\* C9, as claimed: validateField marks the field invalid with the message of
\* the first rule of the list whose validator rejects the value, and valid iff
\* no validator of the list rejects it.  (SpecField violates it: an empty value
\* is rejected by the email, phone and minLength validators.)
C9_FirstRejectingValidator ==
  Validated =>
    LET f == inputs[1]
        Rejects(r) == ~ValidatorOk(r, f.value)
    IN  MarkedBy(f, FirstRule(f.rules, Rejects))

\* C9, amended: a rule fails when it is `required` and the value is blank, or
\* when it is email, phone or minLength, the value is not empty and the rule's
\* validator rejects it.  validateField marks the field invalid with the
\* message of the first failing rule of the list, and valid iff no rule fails.
C9_FirstFailingRule ==
  Validated =>
    LET f == inputs[1]
        Fails(r) == IF r.validator = "required"
                      THEN Blank(f.value)
                      ELSE f.value # <<>> /\ ~ValidatorOk(r, f.value)
    IN  MarkedBy(f, FirstRule(f.rules, Fails))

\* C9 witness: both rules of required|email fail on a blank value, and the
\* field carries the message of required.
C9_Witness ==
  /\ Validated
  /\ inputs[1].rules = <<Required, Email>>
  /\ inputs[1].value = <<" ">>
  /\ inputs[1].invalid
  /\ inputs[1].error = <<"Este campo e obrigatorio">>

\* decodeURIComponent, one piece.
DecodePiece(p) ==
  CASE p = "%20" -> " "
    [] p = "%0A" -> "\n"
    [] p = "%3A" -> ":"
    [] p = "%26" -> "&"
    [] p = "%25" -> "%"
    [] p = "%C3%A1" -> "[a-acute]"
    [] p = "%C3%A7" -> "[c-cedilla]"
    [] OTHER -> p

\* One line per form field, in field order, blank fields skipped.
RECURSIVE ExpectedLines(_)
ExpectedLines(entries) ==
  IF Len(entries) = 0 THEN <<>>
  ELSE (IF Blank(Head(entries)[2]) THEN <<>>
        ELSE Line(getFieldLabel(Head(entries)[1]), Head(entries)[2]))
         \o ExpectedLines(Tail(entries))

\* C10: the link opened by a submission carries, as its text parameter, the
\* message with one line '*<label>:* <value>' for each field of the form whose
\* value is not blank, in field order, and none for a blank field.  (Stated as
\* claimed; SpecWhatsApp violates it.)
C10_LineForEveryFilledField ==
  waOpened # NoURL =>
    /\ waOpened.phone = phoneNumber
    /\ [i \in 1..Len(waOpened.text) |-> DecodePiece(waOpened.text[i])]
         = Greeting \o ExpectedLines(waEntries) \o Closing

\* C1: at most one submitToAPI call is pending, and a submit event that
\* arrives while isSubmitting is true changes nothing of the form: no call,
\* no validation mark, no message, no timer.
C1_SingleInFlight ==
  /\ [](pendingCalls <= 1 /\ (isSubmitting <=> pendingCalls = 1))
  /\ [][(formEvent'[1] = "submit" /\ isSubmitting) =>
          UNCHANGED <<inputs, isSubmitting, submitDisabled, pendingCalls,
                      formMessages, msgTimers>>]_vars

\* C1 witness: a submit event was ignored while a call is pending.
C1_Witness ==
  /\ formEvent = <<"submit", "ignored">>
  /\ isSubmitting
  /\ pendingCalls = 1

\* C11: when the awaited submission rejects, handleSubmit shows an error
\* message, leaves every field's value and validity marks as they were,
\* sets isSubmitting to false and re-enables the button, and the next submit
\* event is not ignored.
C11_RejectionHandled ==
  /\ [][formEvent'[1] = "rejected" =>
         /\ inputs' = inputs
         /\ formMessages' # <<>>
         /\ messageEl'.type = "error"
         /\ ~isSubmitting'
         /\ ~submitDisabled']_vars
  /\ [][(formEvent[1] = "rejected" /\ formEvent'[1] = "submit") =>
         formEvent'[2] # "ignored"]_vars

\* C11 witness: a rejection left a filled, validated form behind, with the
\* error message shown and the button enabled.
C11_Witness ==
  /\ formEvent = <<"rejected", "">>
  /\ \A i \in 1..Len(inputs) : inputs[i].valid /\ inputs[i].value # <<>>
  /\ messageEl.type = "error"
  /\ ~isSubmitting
  /\ ~submitDisabled

\* C12: no Storage call lets an exception out; a get whose read or parse
\* failed returns the default value; a set or remove that failed returns
\* false; a get for a key that never held an item returns the default value.
C12_StorageNeverThrows ==
  /\ ~storageCall.result.threw
  /\ (storageCall.op = "get" /\ storageCall.bodyThrew) =>
       storageCall.result.value = storageCall.arg
  /\ (storageCall.op \in {"set", "remove"} /\ storageCall.bodyThrew) =>
       storageCall.result.value = "false"
  /\ (storageCall.op = "get" /\ storageCall.key \notin everStored) =>
       storageCall.result.value = storageCall.arg

\* C12 witness: a get met an item that JSON.parse rejects and returned its
\* default value.
C12_Witness ==
  /\ storageCall.op = "get"
  /\ storageCall.bodyThrew
  /\ localStorage[storageCall.key] \in {"undefined", "{"}
  /\ storageCall.result = Return(storageCall.arg)

\* The order in which the claim lists the modules.
BootOrder ==
  <<"navigation", "heroEffects", "portfolio", "testimonials", "contactForm",
    "whatsappForm">>

IsRegistered(name) == \E i \in 1..Len(modules) : modules[i] = name

WasCalled(name) == \E i \in 1..Len(constructorCalls) : constructorCalls[i] = name

\* C13: once start has run, the constructors were called in the fixed
\* order, one after the other; no exception left start; a module is
\* registered exactly when neither its constructor nor an earlier one threw;
\* a constructor was called exactly when no earlier one threw; and isLoaded
\* stays false when a constructor threw.
C13_BootstrapStopsAtFirstThrow ==
  appPhase # "waiting" =>
    /\ ~startEscaped
    /\ constructorCalls = SubSeq(BootOrder, 1, Len(constructorCalls))
    /\ modules = SubSeq(BootOrder, 1, Len(modules))
    /\ \A i \in 1..Len(BootOrder) :
         /\ IsRegistered(BootOrder[i]) <=>
              \A j \in 1..i : BootOrder[j] \notin throwing
         /\ WasCalled(BootOrder[i]) <=>
              \A j \in 1..(i - 1) : BootOrder[j] \notin throwing
    /\ throwing # {} => ~isLoaded

\* C13 witness: the Portfolio constructor threw; Navigation and HeroEffects
\* are registered and start has returned.
C13_Witness ==
  /\ appPhase = "failed"
  /\ "portfolio" \in throwing
  /\ modules = <<"navigation", "heroEffects">>
  /\ ~isLoaded

\* C14: at every moment after initialization, a load-more button that
\* exists is hidden exactly when currentPage * itemsPerPage is at least the
\* number of items matching currentFilter, and shown otherwise.
C14_LoadMoreHiddenIffCovered ==
  loadMoreDisplay # "absent" =>
    /\ loadMoreDisplay \in {"none", "block"}
    /\ loadMoreDisplay = "none" <=>
         currentPage * itemsPerPage >= MatchCount(currentFilter)

\* C14 witness: a filter change left exactly one full page of matching
\* items, and the button is hidden.
C14_Witness ==
  /\ currentFilter # All
  /\ MatchCount(currentFilter) = currentPage * itemsPerPage
  /\ loadMoreDisplay = "none"

\* C15: however many notifications and entries the observer delivers about
\* a counter element, animateCounter has been called at most once for it,
\* and it has been called as soon as one intersecting entry was delivered.
C15_CounterStartedOnce ==
  /\ counter.starts <= 1
  /\ counter.starts = 1 <=> counter.seen >= 1

\* C15 witness: the element was reported intersecting a second time and
\* animateCounter has run once.
C15_Witness ==
  /\ counter.seen = 2
  /\ counter.starts = 1
  /\ counter.written

\* C16: once destroy() has been called, no frame of the particle loop is
\* pending and none runs: the particles are not updated (or drawn) again and
\* no frame is requested, whether the hero is visible or not.
C16_NoFrameAfterDestroy ==
  /\ [](destroyed => pendingFrames = {})
  /\ [][destroyed => UNCHANGED <<particleArray, updates, animationId,
                                  pendingFrames>>]_vars

\* C16 witness: destroy() was called on a visible hero after frames had
\* updated the particles.
C16_Witness ==
  /\ destroyed
  /\ isVisible
  /\ updates >= 2
  /\ animationId >= 3

\* C17: a message element is removed only when the message it shows has
\* been displayed for the full delay, and a message that has been displayed
\* for the full delay has its removal due.
C17_MessageShownForFullDelay ==
  /\ [](\A i \in 1..Len(formMessages) :
          formMessages[i].age = DelayTicks =>
            /\ msgTimers # <<>>
            /\ Head(msgTimers).remaining = 0)
  /\ [][\A i \in 1..Len(formMessages) :
          ~IsAttached(formMessages[i].id)' => formMessages[i].age = DelayTicks]_vars

\* C18: at most one message element is attached; a dismissal timer that
\* fires for a detached element changes nothing but the list of pending
\* timers; with no timer pending no message element is attached.
C18_OneMessageAndIdempotentTimers ==
  /\ [](Len(formMessages) <= 1)
  /\ [](msgTimers = <<>> => formMessages = <<>>)
  /\ [][formEvent' = <<"timeout", "detached">> =>
         UNCHANGED <<inputs, isSubmitting, submitDisabled, pendingCalls,
                     formMessages>>]_vars

\* C18 witness: a timer fired for an element that an earlier timer had
\* detached, and nothing is left attached or pending.
C18_Witness ==
  /\ formEvent = <<"timeout", "detached">>
  /\ msgTimers = <<>>
  /\ formMessages = <<>>

\* C19: at most one autoplay interval is armed at any time; from a
\* mouseenter until the following mouseleave none is armed, so no tick can
\* call next(); after init and after every mouseleave exactly the interval
\* held in autoplayInterval is armed, with the delay autoplayDelay.
C19_AutoplayPausedByHover ==
  /\ Cardinality(intervals) <= 1
  /\ pointerEvent = "mouseenter" => intervals = {} /\ autoplayInterval = 0
  /\ pointerEvent # "mouseenter" =>
       /\ autoplayInterval # 0
       /\ intervals = {[id |-> autoplayInterval, delay |-> 5000]}

\* C19 witness: the pointer has left the container after autoplay had
\* advanced the carousel, and an interval is armed.
C19_Witness ==
  /\ pointerEvent = "mouseleave"
  /\ intervals # {}
  /\ currentIndex > 0

\* The sections whose extent [offsetTop, offsetTop + offsetHeight) contains
\* scrollY + innerHeight / 3.
Containing ==
  {i \in 1..Len(navSections) :
     /\ 3 * navSections[i].offsetTop <= 3 * scrollY + innerHeight
     /\ 3 * scrollY + innerHeight
          < 3 * (navSections[i].offsetTop + navSections[i].offsetHeight)}

LastContaining == CHOOSE i \in Containing : \A j \in Containing : j <= i

\* C20: right after updateActiveLink, the active links are those whose href
\* is '#' followed by the id of the last section containing the position,
\* and no link is active when no section contains it.
C20_ActiveLinkIsLastContaining ==
  navEvent = "updateActiveLink" =>
    activeLinks =
      IF Containing = {} THEN {}
      ELSE {l \in 1..Len(navLinks) :
              navLinks[l] = <<"#">> \o navSections[LastContaining].id}

\* C21: the listeners that see one click leave the menu as the click asks.
\* A click on the toggle flips isMenuOpen with exactly one call of
\* openMobileMenu / closeMobileMenu; a click outside menu and toggle leaves
\* the menu closed; a click inside the open menu, unless on a link to an
\* existing element, leaves it open.
LinkToExisting(target) ==
  target.link /\ target.href # NoHref /\ Head(target.href) = "#"
  /\ TargetExists(target.href)

C21_ClicksHandledConsistently ==
  [][navEvent' = "click" =>
       /\ clicked'.where = "toggle" =>
            isMenuOpen' = ~isMenuOpen /\ clicked'.calls = 1
       /\ clicked'.where = "outside" => ~isMenuOpen'
       /\ (clicked'.where = "menu" /\ isMenuOpen /\ ~LinkToExisting(clicked')) =>
            isMenuOpen' /\ clicked'.calls = 0]_vars

C21_Witness ==
  /\ navEvent = "click"
  /\ clicked.where = "toggle"
  /\ clicked.calls = 1
  /\ isMenuOpen

\* C22: a resize event leaves the debounce timer pending, and when the
\* timer fires, resizeDelay ms after the last resize event, the menu is
\* closed if the window is wider than 768 px and is left as it was otherwise.
C22_ResizeClosesAboveBreakpoint ==
  [][/\ navEvent' = "resize" => resizeTimer' = resizeDelay
     /\ navEvent' \in {"resizeClosed", "resizeKept"} =>
          /\ resizeTimer = resizeDelay
          /\ IF innerWidth > 768 THEN ~isMenuOpen'
                                 ELSE isMenuOpen' = isMenuOpen]_vars

C22_Witness ==
  /\ navEvent = "resizeClosed"
  /\ innerWidth > 768
  /\ ~isMenuOpen
  /\ resizeTimer = NoTimer

\* C24: isMenuOpen is true exactly when menu and toggle carry 'active', body
\* carries 'no-scroll', aria-expanded is 'true' and aria-hidden is 'false'.
C24_FlagAgreesWithRenderedState ==
  isMenuOpen <=>
    /\ menuDom.menuActive
    /\ menuDom.toggleActive
    /\ menuDom.noScroll
    /\ menuDom.ariaExpanded = "true"
    /\ menuDom.ariaHidden = "false"

C24_Witness ==
  /\ navEvent = "EscapeClosed"
  /\ ~isMenuOpen
  /\ menuDom = RenderedClosed
\* C23: once scrolling has stopped and no throttle timer is pending, the
\* header carries 'scrolled' exactly when the scroll offset is above
\* scrollThreshold: the last scroll event has been handled.
C23_HeaderFollowsThreshold ==
  throttleTimer = NoTimer => (headerScrolled <=> scrollY > 100)

C23_Witness ==
  /\ throttleEvent = "trailing"
  /\ throttleTimer = NoTimer
  /\ scrollY > 100
  /\ headerScrolled

\* C26: two runs of the throttled callback are at least delay ms apart,
\* whether a run is started by a call or by the trailing timer.
C26_ExecutionsDelayApart ==
  [][throttleEvent' \in {"immediate", "trailing"} =>
       lastExecAge >= scrollDelay]_vars
\* C25: the count written into every filter button is the number of items
\* that the button's own filter selects: all items for 'all', else the items
\* whose category list contains the button's filter value.
SelectedBy(filterValue) ==
  IF filterValue = All THEN 1..Len(items)
  ELSE {i \in 1..Len(items) : Includes(Categories(items[i]), filterValue)}

C25_CountIsOwnFilterSelection ==
  \A filterValue \in FilterValues :
    filterCounts[filterValue] = Cardinality(SelectedBy(filterValue))
====
